---------------------------- MODULE Spec2Model ----------------------------
(***************************************************************************)
(* Model of the HyperCrypto dashboard (src/Next.js, src/middleware.ts):    *)
(* the time-series engine (toAnnual, toMonthly, yoyPct, alignByDate,       *)
(* correlationMatrix) as operators, the HyperCryptoMVP component (fetch    *)
(* fan-out, selection, view) as a state machine, and the basic-auth        *)
(* middleware.                                                             *)
(*                                                                         *)
(* Numbers.  A JavaScript number is an IEEE-754 binary float.  It is       *)
(* modelled as a record [k, m, e]: k = "fin" is the finite value m * 2^e   *)
(* with a mantissa of Prec bits (m = 0, or 2^(Prec-1) <= |m| < 2^Prec),    *)
(* k = "inf" is +/-Infinity (sign in m), k = "nan" is NaN.  Every          *)
(* arithmetic operation rounds its exact result to the nearest             *)
(* representable value, ties to even, as the hardware does.  binary64 has  *)
(* 53 mantissa bits; the model keeps the rounding rule and shortens the    *)
(* mantissa to Prec bits, the fewest that hold the literal 100 of yoyPct   *)
(* and indexBase100 exactly.  The exponent is not bounded (no overflow or  *)
(* underflow) and zero has no sign.  The null of a table cell is the       *)
(* record k = "null".                                                      *)
(***************************************************************************)
EXTENDS Integers, Sequences, FiniteSets, TLC

Prec == 7

----------------------------------------------------------------------------
(* Floating-point arithmetic *)

Abs(n) == IF n < 0 THEN -n ELSE n

Sgn(n) == IF n < 0 THEN -1 ELSE 1

Min(a, b) == IF a < b THEN a ELSE b

RECURSIVE BitLen(_)
BitLen(a) == IF a = 0 THEN 0 ELSE 1 + BitLen(a \div 2)

Fin(m, e) == [k |-> "fin", m |-> m, e |-> e]

Zero == Fin(0, 0)

NaN == [k |-> "nan", m |-> 0, e |-> 0]

Inf(s) == [k |-> "inf", m |-> s, e |-> 0]

Null == [k |-> "null", m |-> 0, e |-> 0]

\* The exact value m * 2^e, followed when sticky by a non-zero remainder
\* below its last bit, rounded to Prec bits, nearest, ties to even.
RoundME(m, e, sticky) ==
    LET a  == Abs(m)
        bl == BitLen(a)
    IN  IF a = 0 THEN Zero
        ELSE IF bl <= Prec
             THEN Fin(Sgn(m) * a * 2^(Prec - bl), e - (Prec - bl))
             ELSE LET sh   == bl - Prec
                      q    == a \div 2^sh
                      r    == a % 2^sh
                      half == 2^(sh - 1)
                      up   == r > half \/ (r = half /\ (sticky \/ q % 2 = 1))
                      q2   == IF up THEN q + 1 ELSE q
                  IN  IF q2 = 2^Prec
                      THEN Fin(Sgn(m) * 2^(Prec - 1), e + sh + 1)
                      ELSE Fin(Sgn(m) * q2, e + sh)

FromInt(n) == RoundME(n, 0, FALSE)

FNeg(x) == IF x.k = "nan" THEN NaN ELSE [x EXCEPT !.m = -x.m]

FAdd(x, y) ==
    IF x.k = "nan" \/ y.k = "nan" THEN NaN
    ELSE IF x.k = "inf" THEN (IF y.k = "inf" /\ y.m # x.m THEN NaN ELSE x)
    ELSE IF y.k = "inf" THEN y
    ELSE IF x.m = 0 THEN y
    ELSE IF y.m = 0 THEN x
    ELSE IF x.e - y.e > Prec + 2 THEN x
    ELSE IF y.e - x.e > Prec + 2 THEN y
    ELSE LET e == Min(x.e, y.e)
         IN  RoundME(x.m * 2^(x.e - e) + y.m * 2^(y.e - e), e, FALSE)

FSub(x, y) == FAdd(x, FNeg(y))

FMul(x, y) ==
    IF x.k = "nan" \/ y.k = "nan" THEN NaN
    ELSE IF x.k = "inf" \/ y.k = "inf"
         THEN (IF x.m = 0 \/ y.m = 0 THEN NaN ELSE Inf(Sgn(x.m) * Sgn(y.m)))
    ELSE RoundME(x.m * y.m, x.e + y.e, FALSE)

FDiv(x, y) ==
    IF x.k = "nan" \/ y.k = "nan" THEN NaN
    ELSE IF x.k = "inf"
         THEN (IF y.k = "inf" THEN NaN ELSE Inf(x.m * Sgn(y.m)))
    ELSE IF y.k = "inf" THEN Zero
    ELSE IF y.m = 0 THEN (IF x.m = 0 THEN NaN ELSE Inf(Sgn(x.m)))
    ELSE IF x.m = 0 THEN Zero
    ELSE LET num == Abs(x.m) * 2^(Prec + 2)
             q   == num \div Abs(y.m)
             r   == num % Abs(y.m)
         IN  RoundME(Sgn(x.m) * Sgn(y.m) * q, x.e - y.e - (Prec + 2), r # 0)

\* The integer square root, found bit by bit from the bit b down.
RECURSIVE ISqrtBits(_, _, _)
ISqrtBits(v, s, b) ==
    IF b = 0 THEN s
    ELSE ISqrtBits(v, IF (s + b) * (s + b) <= v THEN s + b ELSE s, b \div 2)

ISqrt(v) == ISqrtBits(v, 0, 2^(Prec + 1))

FSqrt(x) ==
    IF x.k = "nan" THEN NaN
    ELSE IF x.k = "inf" THEN (IF x.m > 0 THEN x ELSE NaN)
    ELSE IF x.m = 0 THEN Zero
    ELSE IF x.m < 0 THEN NaN
    ELSE LET sh == IF (x.e - (Prec + 2)) % 2 = 0 THEN Prec + 2 ELSE Prec + 3
             v  == x.m * 2^sh
             s  == ISqrt(v)
         IN  RoundME(s, (x.e - sh) \div 2, s * s # v)

\* typeof v === "number" && isFinite(v)
IsFiniteNumber(v) == v.k = "fin"

----------------------------------------------------------------------------
(* State *)

VARIABLES
    pc,        \* engine runs: "input" while the arguments are built, then "done"
    rows,      \* correlationMatrix: the aligned table, a sequence of rows
    keys,      \* correlationMatrix: the ordered key list
    matrix,    \* correlationMatrix: the returned matrix
    points,    \* toAnnual, toMonthly: the input point sequence
    out,       \* the output of the first transformation
    out2,      \* the output of the transformation applied to out
    series,    \* alignByDate: the map from series key to point sequence
    table,     \* alignByDate: the returned rows
    wbVars,        \* useState: selected World Bank indicators
    wbCountries,   \* useState: selected countries
    fxPairs,       \* useState: selected FX pairs
    commods,       \* useState: selected commodities
    cryptoTickers, \* useState: selected coins
    freq,          \* useState: "annual" or "monthly"
    mode,          \* useState: "level", "index" or "yoy"
    tab,           \* useState: "overview" or "corr"
    seriesData,    \* useState: the object from series key to points
    loadingKeys,   \* useState: keys being fetched
    batches,       \* the runs of the fetch effect: tasks, newData, completion
    unhandled,     \* a rejection left the async function of some run
    req,       \* middleware: the request, its path and authorization header
    env,       \* middleware: process.env, BASIC_AUTH_USER and BASIC_AUTH_PASS
    res        \* middleware: the response

corrVars == <<rows, keys, matrix>>

resVars == <<points, out, out2>>

alignVars == <<series, table>>

selVars == <<wbVars, wbCountries, fxPairs, commods, cryptoTickers>>

viewVars == <<freq, mode, tab>>

mwVars == <<req, env, res>>

\* The state outside the runs of the engine: the component and the middleware.
appVars == <<selVars, viewVars, seriesData, loadingKeys, batches, unhandled,
             mwVars>>

vars == <<pc, rows, keys, matrix, points, out, out2, series, table,
          wbVars, wbCountries, fxPairs, commods, cryptoTickers,
          freq, mode, tab, seriesData, loadingKeys, batches, unhandled,
          req, env, res>>

\* The values of the variables a specification does not use.
IdleCorr == rows = <<>> /\ keys = <<>> /\ matrix = <<>>

IdleRes == points = <<>> /\ out = <<>> /\ out2 = <<>>

IdleAlign == series = <<>> /\ table = <<>>

IdleMw == req = <<>> /\ env = <<>> /\ res = "none"

IdleApp ==
    /\ wbVars = <<>> /\ wbCountries = <<>> /\ fxPairs = <<>>
    /\ commods = <<>> /\ cryptoTickers = <<>>
    /\ freq = "annual" /\ mode = "level" /\ tab = "overview"
    /\ seriesData = <<>> /\ loadingKeys = <<>> /\ batches = <<>>
    /\ unhandled = FALSE
    /\ IdleMw

----------------------------------------------------------------------------
(* Bounds and input domains *)

MaxRows == 3

\* Series keys, built as in the effect: `WB:${v}:${c}`, `FX:${fx}`, `CG:${id}`
SeriesKeys == {"WB:GDP:US", "FX:EURUSD", "CG:bitcoin"}

One == FromInt(1)

\* Finite cell values.  With Prec = 7 the sum 43 + 43 + 43 = 129 is rounded
\* to 128, as 0.1 + 0.1 + 0.1 is rounded in binary64.
Values == {One, FromInt(43)}

\* The cells a column of the table can hold: finite numbers, null where the
\* series has no point at the date of the row, and a non-finite number (a
\* division by zero of indexBase100 or yoyPct).
CellsOf(k) ==
    CASE k = "WB:GDP:US"  -> Values \cup {Null}
      [] k = "FX:EURUSD"  -> Values
      [] k = "CG:bitcoin" -> {One, Inf(1)}

TableRows ==
    {r \in [SeriesKeys -> Values \cup {Null, Inf(1)}] :
        \A k \in SeriesKeys : r[k] \in CellsOf(k)}

KeyLists == {<<>>, <<"CG:bitcoin">>, <<"WB:GDP:US", "FX:EURUSD">>,
             <<"FX:EURUSD", "WB:GDP:US">>,
             <<"WB:GDP:US", "FX:EURUSD", "CG:bitcoin">>}

----------------------------------------------------------------------------
(* correlationMatrix *)

\* a.reduce((s, v) => s + v, 0)
RECURSIVE SumTo(_, _)
SumTo(a, i) == IF i = 0 THEN Zero ELSE FAdd(SumTo(a, i - 1), a[i])

\* The loop of corr: <<num, da, db>> after the first i of n iterations.
RECURSIVE corrLoop(_, _, _, _, _)
corrLoop(a, b, ma, mb, i) ==
    IF i = 0 THEN <<Zero, Zero, Zero>>
    ELSE LET acc == corrLoop(a, b, ma, mb, i - 1)
             xa  == FSub(a[i], ma)
             xb  == FSub(b[i], mb)
         IN  <<FAdd(acc[1], FMul(xa, xb)),
               FAdd(acc[2], FMul(xa, xa)),
               FAdd(acc[3], FMul(xb, xb))>>

\* Variants of corr with one step changed: few is the value returned for
\* fewer than 3 points, den_of selects the denominator.
corrVariant(a, b, few, den_of) ==
    LET n == Min(Len(a), Len(b))
    IN  IF n < 3 THEN few
        ELSE LET ma  == FDiv(SumTo(a, Len(a)), FromInt(n))
                 mb  == FDiv(SumTo(b, Len(b)), FromInt(n))
                 acc == corrLoop(a, b, ma, mb, n)
                 den == CASE den_of = "slope"  -> acc[2]
                          [] den_of = "nosqrt" -> FMul(acc[2], acc[3])
                          [] OTHER           -> FSqrt(FMul(acc[2], acc[3]))
             IN  IF den = Zero THEN NaN ELSE FDiv(acc[1], den)

\* corr returning 0 for fewer than 3 points
corrZeroForFew(a, b) == corrVariant(a, b, Zero, "pearson")

\* corr dividing by the variance of the first column only
corrSlope(a, b) == corrVariant(a, b, NaN, "slope")

\* corr without the square root of the denominator
corrNoSqrt(a, b) == corrVariant(a, b, NaN, "nosqrt")

corr(a, b) ==
    LET n == Min(Len(a), Len(b))
    IN  IF n < 3 THEN NaN
        ELSE LET ma  == FDiv(SumTo(a, Len(a)), FromInt(n))
                 mb  == FDiv(SumTo(b, Len(b)), FromInt(n))
                 acc == corrLoop(a, b, ma, mb, n)
                 den == FSqrt(FMul(acc[2], acc[3]))
             IN  IF den = Zero THEN NaN ELSE FDiv(acc[1], den)

\* rows.filter((r) => keys.every((k) => typeof r[k] === "number" && isFinite(r[k])))
valid(rs, ks) ==
    LET every(r) == \A i \in 1..Len(ks) : IsFiniteNumber(r[ks[i]])
    IN  SelectSeq(rs, every)

\* keys.map((k) => valid.map((r) => r[k]))
cols(rs, ks) ==
    LET v == valid(rs, ks)
    IN  [i \in 1..Len(ks) |-> [r \in 1..Len(v) |-> v[r][ks[i]]]]

\* correlationMatrix filtering the rows pair by pair
correlationMatrixPairwise(rs, ks) ==
    [i \in 1..Len(ks) |-> [j \in 1..Len(ks) |->
        LET c == cols(rs, <<ks[i], ks[j]>>) IN corr(c[1], c[2])]]

correlationMatrix(rs, ks) ==
    LET c == cols(rs, ks)
    IN  [i \in 1..Len(ks) |-> [j \in 1..Len(ks) |-> corr(c[i], c[j])]]

----------------------------------------------------------------------------
(* Specification of the correlator: a table is built row by row, then      *)
(* correlationMatrix is applied to it with one of the key lists.           *)

InitCorr ==
    /\ pc = "input"
    /\ rows = <<>>
    /\ keys = <<>>
    /\ matrix = <<>>
    /\ IdleRes
    /\ IdleAlign
    /\ IdleApp

AddRow ==
    /\ pc = "input"
    /\ Len(rows) < MaxRows
    /\ \E r \in TableRows : rows' = Append(rows, r)
    /\ UNCHANGED <<pc, keys, matrix, resVars, alignVars, appVars>>

Correlate ==
    /\ pc = "input"
    /\ \E ks \in KeyLists :
          /\ keys' = ks
          /\ matrix' = correlationMatrix(rows, ks)
    /\ pc' = "done"
    /\ UNCHANGED <<rows, resVars, alignVars, appVars>>

NextCorr == AddRow \/ Correlate

SpecCorr == InitCorr /\ [][NextCorr]_vars

----------------------------------------------------------------------------
(* Dates.  A date is the string "YYYY-MM-DD", modelled as the tuple of its  *)
(* three fixed-width fields; the string order is the order of the tuples.  *)

\* a.date < b.date
DateLess(a, b) ==
    \/ a[1] < b[1]
    \/ a[1] = b[1] /\ a[2] < b[2]
    \/ a[1] = b[1] /\ a[2] = b[2] /\ a[3] < b[3]

\* p.date.slice(0, 4)
Year(d) == d[1]

\* p.date.slice(0, 7)
YearMonth(d) == <<d[1], d[2]>>

\* `${y}-12-31`
YearEnd(y) == <<y, 12, 31>>

\* `${ym}-28`
MonthStamp(ym) == <<ym[1], ym[2], 28>>

Point(d, v) == [date |-> d, value |-> v]

----------------------------------------------------------------------------
(* toAnnual, toMonthly, yoyPct *)

\* The sequence s[1..n] with p inserted before the first element that
\* the comparator (a, b) => (a.date < b.date ? -1 : 1) puts after p.
RECURSIVE InsertByDate(_, _, _)
InsertByDate(s, n, p) ==
    IF n = 0 THEN <<p>>
    ELSE IF DateLess(p.date, s[n].date)
         THEN Append(InsertByDate(s, n - 1, p), s[n])
         ELSE Append(SubSeq(s, 1, n), p)

RECURSIVE SortPrefix(_, _)
SortPrefix(s, n) ==
    IF n = 0 THEN <<>>
    ELSE LET t == SortPrefix(s, n - 1) IN InsertByDate(t, Len(t), s[n])

\* A sequence left in the order of its buckets
Unsorted(s) == s

\* .sort((a, b) => (a.date < b.date ? -1 : 1))
SortByDate(s) == SortPrefix(s, Len(s))

\* The key of the bucket of a date: its first 4 characters, its first 7
\* characters, or the whole string.
KeyOf(by, d) ==
    CASE by = "year"  -> Year(d)
      [] by = "month" -> YearMonth(d)
      [] by = "date"  -> d

\* The values pushed into the bucket of key k, in input order.
Bucket(pts, by, k) ==
    LET inK(p) == KeyOf(by, p.date) = k
        sel    == SelectSeq(pts, inK)
    IN  [i \in 1..Len(sel) |-> sel[i].value]

\* The keys of the buckets in the order of their creation.
RECURSIVE InsertionOrder(_, _, _)
InsertionOrder(pts, by, n) ==
    IF n = 0 THEN <<>>
    ELSE LET prev == InsertionOrder(pts, by, n - 1)
             k    == KeyOf(by, pts[n].date)
         IN  IF \E i \in 1..Len(prev) : prev[i] = k THEN prev ELSE Append(prev, k)

\* The integers of a set in ascending order.
RECURSIVE Ascending(_)
Ascending(S) ==
    IF S = {} THEN <<>>
    ELSE LET mn == CHOOSE x \in S : \A y \in S : x <= y
         IN  <<mn>> \o Ascending(S \ {mn})

\* Object.entries(buckets) of toAnnual: a year such as "2019" is an
\* integer-like property name, and those are listed in ascending order.
AnnualEntries(pts) == Ascending({Year(pts[i].date) : i \in 1..Len(pts)})

\* Object.entries(buckets) of toMonthly: "2019-05" is an ordinary property
\* name, and those are listed in insertion order.
MonthlyEntries(pts) == InsertionOrder(pts, "month", Len(pts))

\* toAnnual with the buckets keyed by the whole date string
toAnnualKeyedByDate(pts, method) ==
    LET ks == InsertionOrder(pts, "date", Len(pts))
    IN  SortByDate([i \in 1..Len(ks) |->
            LET arr == Bucket(pts, "date", ks[i])
            IN  Point(YearEnd(Year(ks[i])),
                      IF method = "avg"
                      THEN FDiv(SumTo(arr, Len(arr)), FromInt(Len(arr)))
                      ELSE arr[Len(arr)])])

toAnnual(pts, method) ==
    LET ys == AnnualEntries(pts)
    IN  SortByDate([i \in 1..Len(ys) |->
            LET arr == Bucket(pts, "year", ys[i])
            IN  Point(YearEnd(ys[i]),
                      IF method = "avg"
                      THEN FDiv(SumTo(arr, Len(arr)), FromInt(Len(arr)))
                      ELSE arr[Len(arr)])])

toMonthly(pts) ==
    LET yms == MonthlyEntries(pts)
    IN  SortByDate([i \in 1..Len(yms) |->
            LET arr == Bucket(pts, "month", yms[i])
            IN  Point(MonthStamp(yms[i]), arr[Len(arr)])])

\* (points[i].value / points[i - 1].value - 1) * 100
YoyValue(curr, prev) == FMul(FSub(FDiv(curr, prev), One), FromInt(100))

\* The loop of yoyPct over i = 1 .. n - 1 (positions 2 .. n here); gap tells
\* whether the test yCurr === yPrev + 1 is made.
RECURSIVE yoyLoop(_, _, _)
yoyLoop(pts, n, gap) ==
    IF n <= 1 THEN <<>>
    ELSE LET prev == yoyLoop(pts, n - 1, gap)
         IN  IF gap => Year(pts[n].date) = Year(pts[n - 1].date) + 1
             THEN Append(prev, Point(pts[n].date,
                                     YoyValue(pts[n].value, pts[n - 1].value)))
             ELSE prev

\* yoyPct without the test of the year gap
yoyPctEveryPair(pts) == yoyLoop(pts, Len(pts), FALSE)

yoyPct(pts) == yoyLoop(pts, Len(pts), TRUE)

----------------------------------------------------------------------------
(* Specification of the resampler: a point sequence is built in any order, *)
(* then toAnnual or toMonthly is applied; the annual output is resampled   *)
(* again or handed to yoyPct, as in the computation of `transformed`.      *)

MaxPoints == 3

Dates == {<<2019, 5, 10>>, <<2019, 5, 20>>, <<2019, 12, 31>>,
          <<2020, 1, 28>>, <<2020, 12, 31>>, <<2022, 12, 31>>}

PointValues == Values \cup {Zero}

InitRes ==
    /\ pc = "input"
    /\ points = <<>>
    /\ out = <<>>
    /\ out2 = <<>>
    /\ IdleCorr
    /\ IdleAlign
    /\ IdleApp

AddPoint ==
    /\ pc = "input"
    /\ Len(points) < MaxPoints
    /\ \E d \in Dates, v \in PointValues : points' = Append(points, Point(d, v))
    /\ UNCHANGED <<pc, out, out2, corrVars, alignVars, appVars>>

ToAnnual ==
    /\ pc = "input"
    /\ \E method \in {"last", "avg"} :
          /\ out' = toAnnual(points, method)
          /\ pc' = IF method = "last" THEN "annual" ELSE "annualAvg"
    /\ UNCHANGED <<points, out2, corrVars, alignVars, appVars>>

ToMonthly ==
    /\ pc = "input"
    /\ out' = toMonthly(points)
    /\ pc' = "monthly"
    /\ UNCHANGED <<points, out2, corrVars, alignVars, appVars>>

ToAnnualAgain ==
    /\ pc = "annual"
    /\ out2' = toAnnual(out, "last")
    /\ pc' = "annualTwice"
    /\ UNCHANGED <<points, out, corrVars, alignVars, appVars>>

YoyPct ==
    /\ pc = "annual"
    /\ out2' = yoyPct(out)
    /\ pc' = "yoy"
    /\ UNCHANGED <<points, out, corrVars, alignVars, appVars>>

NextRes == AddPoint \/ ToAnnual \/ ToMonthly \/ ToAnnualAgain \/ YoyPct

SpecRes == InitRes /\ [][NextRes]_vars

----------------------------------------------------------------------------
(* alignByDate.  The map of series is an object: a sequence of entries     *)
(* [key, pts] in insertion order, one per key.                             *)

\* Object.values(series).forEach((arr) => arr.forEach((p) => dates.add(p.date))):
\* the dates of the first n entries, in the order the Set receives them.
RECURSIVE AllDates(_, _)
AllDates(ser, n) ==
    IF n = 0 THEN <<>>
    ELSE AllDates(ser, n - 1) \o [i \in 1..Len(ser[n].pts) |-> ser[n].pts[i].date]

\* The elements of a Set, each once, in insertion order.
RECURSIVE SetOrder(_, _)
SetOrder(ds, n) ==
    IF n = 0 THEN <<>>
    ELSE LET prev == SetOrder(ds, n - 1)
         IN  IF \E i \in 1..Len(prev) : prev[i] = ds[n] THEN prev
             ELSE Append(prev, ds[n])

\* Array.from(dates).sort(): the default order of strings.
RECURSIVE SortDates(_)
SortDates(ds) ==
    IF Len(ds) = 0 THEN <<>>
    ELSE LET mn   == CHOOSE i \in 1..Len(ds) :
                         \A j \in 1..Len(ds) : ~DateLess(ds[j], ds[i])
             rest == [j \in 1..(Len(ds) - 1) |-> IF j < mn THEN ds[j] ELSE ds[j + 1]]
         IN  <<ds[mn]>> \o SortDates(rest)

\* The value of the last point of arr dated d or earlier, null when none
findLatestUpTo(arr, d) ==
    LET idx == {i \in 1..Len(arr) : ~DateLess(d, arr[i].date)}
    IN  IF idx = {} THEN Null
        ELSE arr[CHOOSE i \in idx : \A j \in idx : j <= i].value

\* const f = arr.find((p) => p.date === d); f ? f.value : null
find(arr, d) ==
    LET idx == {i \in 1..Len(arr) : arr[i].date = d}
    IN  IF idx = {} THEN Null
        ELSE arr[CHOOSE i \in idx : \A j \in idx : i <= j].value

SeriesKeysOf(ser) == {ser[i].key : i \in 1..Len(ser)}

EntryOf(ser, k) == ser[CHOOSE i \in 1..Len(ser) : ser[i].key = k]

alignByDate(ser) ==
    LET all    == AllDates(ser, Len(ser))
        sorted == SortDates(SetOrder(all, Len(all)))
    IN  [r \in 1..Len(sorted) |->
            [x \in {"date"} \cup SeriesKeysOf(ser) |->
                IF x = "date" THEN sorted[r]
                ELSE find(EntryOf(ser, x).pts, sorted[r])]]

----------------------------------------------------------------------------
(* Specification of the aligner: a map of series is built point by point,  *)
(* in any order of keys and dates, then alignByDate is applied.            *)

MaxSeriesLen == 2

AlignKeys == {"WB:GDP:US", "FX:EURUSD"}

AlignDates == {<<2019, 12, 31>>, <<2020, 1, 28>>, <<2020, 12, 31>>}

InitAlign ==
    /\ pc = "input"
    /\ series = <<>>
    /\ table = <<>>
    /\ IdleCorr
    /\ IdleRes
    /\ IdleApp

\* series[k] = [...(series[k] || []), p]
PutPoint(ser, k, p) ==
    IF k \in SeriesKeysOf(ser)
    THEN [i \in 1..Len(ser) |->
            IF ser[i].key = k THEN [ser[i] EXCEPT !.pts = Append(@, p)] ELSE ser[i]]
    ELSE Append(ser, [key |-> k, pts |-> <<p>>])

AddSeriesPoint ==
    /\ pc = "input"
    /\ \E k \in AlignKeys, d \in AlignDates, v \in Values :
          /\ k \in SeriesKeysOf(series) => Len(EntryOf(series, k).pts) < MaxSeriesLen
          /\ series' = PutPoint(series, k, Point(d, v))
    /\ UNCHANGED <<pc, table, corrVars, resVars, appVars>>

Align ==
    /\ pc = "input"
    /\ table' = alignByDate(series)
    /\ pc' = "aligned"
    /\ UNCHANGED <<series, corrVars, resVars, appVars>>

NextAlign == AddSeriesPoint \/ Align

SpecAlign == InitAlign /\ [][NextAlign]_vars

----------------------------------------------------------------------------
(* The HyperCryptoMVP component: selection state, the fetch effect and the *)
(* view.  The catalogues are cut down: one indicator, one country and one  *)
(* coin.  The FX and commodity catalogues are cut down to nothing: none of *)
(* their checkboxes is drawn, and the effect skips the default FX pair and *)
(* commodity, whose catalogue entries are missing (if (!meta) continue);   *)
(* both are fetched and keyed as the coins are, through toMonthly.         *)

MaxBatches == 2

WB_INDICATORS == {"GDP"}

COUNTRIES == {"US"}

FRED_FX == {}

FRED_COMMO == {}

CG_COINS == {"bitcoin"}

Elems(sq) == {sq[i] : i \in 1..Len(sq)}

\* e.target.checked ? [...s, k] : s.filter((x) => x !== k)
Toggled(sq, x) ==
    IF x \in Elems(sq) THEN SelectSeq(sq, LAMBDA y : y # x) ELSE Append(sq, x)

\* The entries of a selection array that pass if (!meta) continue.
InCatalogue(sq, cat) == SelectSeq(sq, LAMBDA x : x \in cat)

\* The keys marked by one run of the effect, in the order of the loops.
EffectKeys(wv, wc, fx, cm, cg) ==
    LET v == InCatalogue(wv, WB_INDICATORS)
        f == InCatalogue(fx, FRED_FX)
        m == InCatalogue(cm, FRED_COMMO)
    IN  [n \in 1..(Len(v) * Len(wc)) |->
            "WB:" \o v[((n - 1) \div Len(wc)) + 1] \o ":" \o wc[((n - 1) % Len(wc)) + 1]]
        \o [i \in 1..Len(f) |-> "FX:" \o f[i]]
        \o [i \in 1..Len(m) |-> "COM:" \o m[i]]
        \o [i \in 1..Len(cg) |-> "CG:" \o cg[i]]

\* What the remote sources answer: annual points of the World Bank, daily
\* points of FRED and CoinGecko.
AnnualPoints ==
    <<Point(<<2016, 12, 31>>, One), Point(<<2017, 12, 31>>, FromInt(43)),
      Point(<<2018, 12, 31>>, FromInt(43)), Point(<<2019, 12, 31>>, One),
      Point(<<2020, 12, 31>>, FromInt(43))>>

DailyPoints ==
    <<Point(<<2019, 5, 10>>, One), Point(<<2019, 5, 20>>, FromInt(43)),
      Point(<<2020, 1, 28>>, One)>>

IsWbKey(k) == k \in {"WB:" \o v \o ":" \o c : v \in WB_INDICATORS, c \in COUNTRIES}

\* The points the promise p handed to mark resolves with:
\* fetchWorldBankAnnual(...), fetchFredCsv(...).then(toMonthly),
\* fetchCoinGeckoDaily(id).then((o) => toMonthly(o.prices)).
MonthlyPoints == toMonthly(DailyPoints)

Fetched(k) == IF IsWbKey(k) THEN AnnualPoints ELSE MonthlyPoints

\* setLoadingKeys((s) => [...new Set([...s, k])]) for each key of ks in turn
RECURSIVE MarkLoading(_, _, _)
MarkLoading(lk, ks, n) ==
    IF n = 0 THEN lk
    ELSE LET prev == MarkLoading(lk, ks, n - 1)
         IN  IF ks[n] \in Elems(prev) THEN prev ELSE Append(prev, ks[n])

\* The run of the effect for a selection: every key is marked and its fetch
\* started.  fetch[k] is the state of the promise p, task[k] the state of the
\* promise pushed to tasks, newData the object filled by the handlers.
NewBatch(ks) ==
    [keys    |-> ks,
     fetch   |-> [k \in Elems(ks) |-> "pending"],
     task    |-> [k \in Elems(ks) |-> "pending"],
     newData |-> <<>>,
     done    |-> FALSE]

RunEffect(wv, wc, fx, cm, cg) ==
    LET ks == EffectKeys(wv, wc, fx, cm, cg)
    IN  /\ loadingKeys' = MarkLoading(loadingKeys, ks, Len(ks))
        /\ batches' = Append(batches, NewBatch(ks))

\* An object whose values are point arrays is the sequence of its entries
\* [key, pts] in the order of Object.entries, the order of insertion of the
\* keys.  obj[k] = pts keeps the place of a key the object has already.
ObjSet(obj, k, pts) ==
    IF k \in SeriesKeysOf(obj)
    THEN [i \in 1..Len(obj) |->
            IF obj[i].key = k THEN [key |-> k, pts |-> pts] ELSE obj[i]]
    ELSE Append(obj, [key |-> k, pts |-> pts])

\* { ...prev, ...nd }: the entries of prev, then the first n entries of nd
RECURSIVE Spread(_, _, _)
Spread(prev, nd, n) ==
    IF n = 0 THEN prev
    ELSE ObjSet(Spread(prev, nd, n - 1), nd[n].key, nd[n].pts)

\* .then((pts) => (newData[k] = pts))
OnFulfilled(bt, k, pts) ==
    [bt EXCEPT !.fetch[k] = "resolved", !.task[k] = "fulfilled",
               !.newData = ObjSet(@, k, pts)]

\* A rejection with no catch handler: the task promise is rejected
OnRejectedUncaught(bt, k) ==
    [bt EXCEPT !.fetch[k] = "rejected", !.task[k] = "rejected"]

\* .catch(() => (newData[k] = []))
OnRejected(bt, k) ==
    [bt EXCEPT !.fetch[k] = "rejected", !.task[k] = "fulfilled",
               !.newData = ObjSet(@, k, <<>>)]

\* A settled fetch that leaves loadingKeys as it is
FinallyNothing(lk, k) == lk

\* .finally(() => setLoadingKeys((s) => s.filter((x) => x !== k)))
Finally(lk, k) == SelectSeq(lk, LAMBDA x : x # k)

\* points.map((p) => ({ ...p, value: (p.value / base) * 100 }))
indexBase100(pts) ==
    IF Len(pts) = 0 THEN pts
    ELSE [i \in 1..Len(pts) |->
            Point(pts[i].date,
                  FMul(FDiv(pts[i].value, pts[1].value), FromInt(100)))]

\* The loop of the memo transformed over the first n entries of sd.
RECURSIVE transformedTo(_, _, _, _)
transformedTo(sd, fr, md, n) ==
    IF n = 0 THEN <<>>
    ELSE LET prev == transformedTo(sd, fr, md, n - 1)
             arr1 == IF fr = "annual" THEN toAnnual(sd[n].pts, "last")
                     ELSE sd[n].pts
             arr2 == IF md = "index" THEN indexBase100(arr1) ELSE arr1
             arr3 == IF md = "yoy" THEN yoyPct(toAnnual(arr2, "last")) ELSE arr2
         IN  IF Len(sd[n].pts) = 0 THEN prev
             ELSE ObjSet(prev, sd[n].key, arr3)

transformed == transformedTo(seriesData, freq, mode, Len(seriesData))

\* Object.keys(transformed).filter((k) => transformed[k].length > 0)
corrKeys ==
    LET kept == SelectSeq(transformed, LAMBDA e : Len(e.pts) > 0)
    IN  [i \in 1..Len(kept) |-> kept[i].key]

\* alignByDate(Object.fromEntries(corrKeys.map((k) => [k, transformed[k]])))
alignedRows ==
    alignByDate([i \in 1..Len(corrKeys) |-> EntryOf(transformed, corrKeys[i])])

corrMatrix == correlationMatrix(alignedRows, corrKeys)

isLoading == Len(loadingKeys) > 0

allOk == Len(corrKeys) >= 2 /\ Len(alignedRows) >= 5

\* What the tab Correlacao renders: the prompt or the table of the matrix,
\* and the scatter of the first two keys.
PromptRendered == tab = "corr" /\ ~allOk

TableRendered == tab = "corr" /\ allOk

ScatterRendered == tab = "corr" /\ Len(corrKeys) >= 2

InitApp ==
    /\ pc = "app"
    /\ wbVars = <<"GDP">>
    /\ wbCountries = <<"US">>
    /\ fxPairs = <<"EURUSD">>
    /\ commods = <<"WTI">>
    /\ cryptoTickers = <<"bitcoin">>
    /\ freq = "annual"
    /\ mode = "level"
    /\ tab = "overview"
    /\ seriesData = <<>>
    /\ loadingKeys = <<>>
    /\ batches = <<>>
    /\ unhandled = FALSE
    /\ IdleCorr
    /\ IdleRes
    /\ IdleAlign
    /\ IdleMw

\* What the component leaves alone: the runs of the engine, the middleware.
engineVars == <<pc, corrVars, resVars, alignVars, mwVars>>

\* What an event of the fetch effect leaves alone.
restVars == <<viewVars, engineVars>>

\* The first run of the effect, after the first render.
Mount ==
    /\ batches = <<>>
    /\ RunEffect(wbVars, wbCountries, fxPairs, commods, cryptoTickers)
    /\ UNCHANGED <<selVars, seriesData, unhandled, restVars>>

CanToggle == batches # <<>> /\ Len(batches) < MaxBatches

\* A checkbox changes one selection array; its joined string is a dependency
\* of the effect, which runs again with the new selection.
ToggleWbVar ==
    /\ CanToggle
    /\ \E v \in WB_INDICATORS :
          /\ wbVars' = Toggled(wbVars, v)
          /\ RunEffect(wbVars', wbCountries, fxPairs, commods, cryptoTickers)
    /\ UNCHANGED <<wbCountries, fxPairs, commods, cryptoTickers,
                   seriesData, unhandled, restVars>>

ToggleCountry ==
    /\ CanToggle
    /\ \E c \in COUNTRIES :
          /\ wbCountries' = Toggled(wbCountries, c)
          /\ RunEffect(wbVars, wbCountries', fxPairs, commods, cryptoTickers)
    /\ UNCHANGED <<wbVars, fxPairs, commods, cryptoTickers,
                   seriesData, unhandled, restVars>>

ToggleCrypto ==
    /\ CanToggle
    /\ \E c \in CG_COINS :
          /\ cryptoTickers' = Toggled(cryptoTickers, c)
          /\ RunEffect(wbVars, wbCountries, fxPairs, commods, cryptoTickers')
    /\ UNCHANGED <<wbVars, wbCountries, fxPairs, commods,
                   seriesData, unhandled, restVars>>

\* The fetch of key k of run b succeeds: the then and finally handlers run.
FetchResolve ==
    \E b \in 1..Len(batches) : \E k \in Elems(batches[b].keys) :
        /\ batches[b].fetch[k] = "pending"
        /\ batches' = [batches EXCEPT ![b] = OnFulfilled(@, k, Fetched(k))]
        /\ loadingKeys' = Finally(loadingKeys, k)
        /\ UNCHANGED <<selVars, seriesData, unhandled, restVars>>

\* The fetch of key k of run b fails: the catch and finally handlers run.
FetchReject ==
    \E b \in 1..Len(batches) : \E k \in Elems(batches[b].keys) :
        /\ batches[b].fetch[k] = "pending"
        /\ batches' = [batches EXCEPT ![b] = OnRejected(@, k)]
        /\ loadingKeys' = Finally(loadingKeys, k)
        /\ UNCHANGED <<selVars, seriesData, unhandled, restVars>>

\* Run b stores what has arrived as soon as one of its tasks is fulfilled
BatchStoredOnArrival ==
    \E b \in 1..Len(batches) :
        LET bt == batches[b]
        IN  /\ ~bt.done
            /\ \E k \in Elems(bt.keys) : bt.task[k] = "fulfilled"
            /\ batches' = [batches EXCEPT ![b].done = TRUE]
            /\ seriesData' = Spread(seriesData, bt.newData, Len(bt.newData))
            /\ UNCHANGED <<selVars, loadingKeys, unhandled, restVars>>

\* await Promise.all(tasks) returns for run b, or throws when a task is
\* rejected; on return setSeriesData((prev) => ({ ...prev, ...newData })).
BatchSettled ==
    \E b \in 1..Len(batches) :
        LET bt       == batches[b]
            rejected == \E k \in Elems(bt.keys) : bt.task[k] = "rejected"
        IN  /\ ~bt.done
            /\ rejected \/ \A k \in Elems(bt.keys) : bt.task[k] = "fulfilled"
            /\ batches' = [batches EXCEPT ![b].done = TRUE]
            /\ seriesData' = IF rejected THEN seriesData
                              ELSE Spread(seriesData, bt.newData, Len(bt.newData))
            /\ unhandled' = (unhandled \/ rejected)
            /\ UNCHANGED <<selVars, loadingKeys, restVars>>

\* The buttons of frequency, mode and tab.
SetFreq ==
    /\ batches # <<>>
    /\ \E f \in {"annual", "monthly"} : freq' = f
    /\ UNCHANGED <<selVars, mode, tab, seriesData, loadingKeys, batches,
                   unhandled, engineVars>>

SetMode ==
    /\ batches # <<>>
    /\ \E m \in {"level", "index", "yoy"} : mode' = m
    /\ UNCHANGED <<selVars, freq, tab, seriesData, loadingKeys, batches,
                   unhandled, engineVars>>

SetTab ==
    /\ batches # <<>>
    /\ \E t \in {"overview", "corr"} : tab' = t
    /\ UNCHANGED <<selVars, freq, mode, seriesData, loadingKeys, batches,
                   unhandled, engineVars>>

Next ==
    \/ Mount
    \/ ToggleWbVar \/ ToggleCountry \/ ToggleCrypto
    \/ FetchResolve \/ FetchReject
    \/ BatchSettled
    \/ SetFreq \/ SetMode \/ SetTab

Spec == InitApp /\ [][Next]_vars

\* The scheduling of the runtime: the effect runs after the first render,
\* every started fetch succeeds or fails in the end, and the continuation of
\* await Promise.all runs once the tasks have settled.  A checkbox is
\* clicked or not; the bound on the runs makes the selection stop changing.
FairSpec ==
    /\ Spec
    /\ WF_vars(Mount)
    /\ WF_vars(FetchResolve \/ FetchReject)
    /\ WF_vars(BatchSettled)

----------------------------------------------------------------------------
(* The middleware of src/middleware.ts.  A string is the sequence of its   *)
(* characters, so that split and the base64 decoding act on its text; null *)
(* and undefined are the two markers below, which no text equals.          *)

null == <<"null">>

undefined == <<"undefined">>

Basic == <<"B", "a", "s", "i", "c">>

\* s.split(sep) for a separator of one character
RECURSIVE split(_, _)
split(s, sep) ==
    IF \A i \in 1..Len(s) : s[i] # sep THEN <<s>>
    ELSE LET i == CHOOSE i \in 1..Len(s) :
                      s[i] = sep /\ \A j \in 1..(i - 1) : s[j] # sep
         IN  <<SubSeq(s, 1, i - 1)>> \o split(SubSeq(s, i + 1, Len(s)), sep)

\* const [x, y] = arr: the element at i, undefined past the end
Destructured(arr, i) == IF i <= Len(arr) THEN arr[i] ELSE undefined

\* The base64 alphabet, in the order of the values 0 .. 63.
B64 ==
    <<"A", "B", "C", "D", "E", "F", "G", "H", "I", "J", "K", "L", "M", "N", "O", "P",
      "Q", "R", "S", "T", "U", "V", "W", "X", "Y", "Z", "a", "b", "c", "d", "e", "f",
      "g", "h", "i", "j", "k", "l", "m", "n", "o", "p", "q", "r", "s", "t", "u", "v",
      "w", "x", "y", "z", "0", "1", "2", "3", "4", "5", "6", "7", "8", "9", "+", "/">>

Sextet(c) == (CHOOSE i \in 1..64 : B64[i] = c) - 1

\* The character codes of the texts of the model.
CharCode(c) == CASE c = "a" -> 97 [] c = "b" -> 98 [] c = ":" -> 58

FromCharCode(n) ==
    CASE n = 97 -> "a" [] n = 98 -> "b" [] n = 58 -> ":" [] OTHER -> "?"

\* What a client sends for a text: three bytes become four characters, and
\* "=" pads the last group.
RECURSIVE ToBase64(_)
ToBase64(s) ==
    IF Len(s) = 0 THEN <<>>
    ELSE LET c1 == CharCode(s[1])
             c2 == IF Len(s) >= 2 THEN CharCode(s[2]) ELSE 0
             c3 == IF Len(s) >= 3 THEN CharCode(s[3]) ELSE 0
             v  == (c1 * 65536) + (c2 * 256) + c3
         IN  <<B64[(v \div 262144) + 1],
               B64[((v \div 4096) % 64) + 1],
               IF Len(s) >= 2 THEN B64[((v \div 64) % 64) + 1] ELSE "=",
               IF Len(s) >= 3 THEN B64[(v % 64) + 1] ELSE "=">>
             \o ToBase64(SubSeq(s, 4, Len(s)))

\* The bytes of the groups of four characters of e, which has no padding.
RECURSIVE DecodeGroups(_)
DecodeGroups(e) ==
    IF Len(e) < 2 THEN <<>>
    ELSE LET s3 == IF Len(e) >= 3 THEN Sextet(e[3]) ELSE 0
             s4 == IF Len(e) >= 4 THEN Sextet(e[4]) ELSE 0
             v  == (Sextet(e[1]) * 262144) + (Sextet(e[2]) * 4096) + (s3 * 64) + s4
         IN  <<v \div 65536>>
             \o (IF Len(e) >= 3 THEN <<(v \div 256) % 256>> ELSE <<>>)
             \o (IF Len(e) >= 4 THEN <<v % 256>> ELSE <<>>)
             \o DecodeGroups(SubSeq(e, 5, Len(e)))

\* Buffer.from(encoded, 'base64'): the decoding ends at the padding.
BufferFromBase64(encoded) == DecodeGroups(split(encoded, "=")[1])

\* buffer.toString()
BufferToString(buffer) == [i \in 1..Len(buffer) |-> FromCharCode(buffer[i])]

\* The response of middleware(req) for the header auth and the environment e.
middleware(auth, e) ==
    IF auth = null \/ auth = <<>> THEN "401"
    ELSE LET parts   == split(auth, " ")
             scheme  == Destructured(parts, 1)
             encoded == Destructured(parts, 2)
         IN  IF scheme # Basic \/ encoded = undefined \/ encoded = <<>>
             THEN "401"
             ELSE LET cred == split(BufferToString(BufferFromBase64(encoded)), ":")
                      user == Destructured(cred, 1)
                      pass == Destructured(cred, 2)
                  IN  IF user # e.BASIC_AUTH_USER \/ pass # e.BASIC_AUTH_PASS
                      THEN "403"
                      ELSE "next"

\* config.matcher '/dashboard/:path*': the path, a sequence of segments, is
\* /dashboard or below it.
matcher(path) == Len(path) >= 1 /\ path[1] = "dashboard"

----------------------------------------------------------------------------
(* Specification of the middleware: one request, with any of the headers   *)
(* below, is answered under any of the environments below.                 *)

MaxCredLen == 5

CredChars == {"a", "b", ":"}

\* The texts a client encodes as its credentials.
Creds == UNION {[1..n -> CredChars] : n \in 0..MaxCredLen}

Schemes == {Basic, <<"b", "a", "s", "i", "c">>, <<"B", "e", "a", "r", "e", "r">>}

Headers ==
    {null, <<>>, Basic, Basic \o <<" ">>}
        \cup {sch \o <<" ">> \o ToBase64(c) : sch \in Schemes, c \in Creds}

Paths == {<<"dashboard">>, <<"dashboard", "a">>, <<"login">>}

Envs ==
    [BASIC_AUTH_USER : {<<"a">>, undefined},
     BASIC_AUTH_PASS : {<<"b">>, <<"b", ":", "a">>, undefined}]

InitMw ==
    /\ pc = "request"
    /\ req \in [path : Paths, auth : Headers]
    /\ env \in Envs
    /\ res = "none"
    /\ IdleCorr
    /\ IdleRes
    /\ IdleAlign
    /\ wbVars = <<>> /\ wbCountries = <<>> /\ fxPairs = <<>>
    /\ commods = <<>> /\ cryptoTickers = <<>>
    /\ freq = "annual" /\ mode = "level" /\ tab = "overview"
    /\ seriesData = <<>> /\ loadingKeys = <<>> /\ batches = <<>>
    /\ unhandled = FALSE

\* The request is served: through the middleware when the matcher selects
\* its path, and directly otherwise.
Serve ==
    /\ pc = "request"
    /\ pc' = "response"
    /\ res' = IF matcher(req.path) THEN middleware(req.auth, env) ELSE "next"
    /\ UNCHANGED <<req, env, corrVars, resVars, alignVars, selVars, viewVars,
                   seriesData, loadingKeys, batches, unhandled>>

NextMw == Serve

SpecMw == InitMw /\ [][NextMw]_vars

----------------------------------------------------------------------------
(* Properties of correlationMatrix *)

RemoveAt(sq, r) == [i \in 1..(Len(sq) - 1) |-> IF i < r THEN sq[i] ELSE sq[i + 1]]

\* The rows in which the cells of both keys are finite numbers.
JointRows(a, b) ==
    {r \in 1..Len(rows) : IsFiniteNumber(rows[r][a]) /\ IsFiniteNumber(rows[r][b])}

\* The rows in which the cell of every key of the key list is a finite number.
CommonRows ==
    {r \in 1..Len(rows) : \A i \in 1..Len(keys) : IsFiniteNumber(rows[r][keys[i]])}

\* The column of a key is constant over the common rows.
ConstantColumn(a) ==
    \A r1, r2 \in CommonRows : rows[r1][a] = rows[r2][a]

\* C1: every cell is computed over the rows valid for all the keys: a row in
\* which the cell of some key is null or not finite contributes to no cell,
\* so removing it from the table leaves the whole matrix unchanged.
C1_CommonSubset ==
    pc = "done" =>
        \A r \in (1..Len(rows)) \ CommonRows :
            correlationMatrix(RemoveAt(rows, r), keys) = matrix

\* A row valid for a pair of keys and not for a third one was in the table,
\* the pair has three jointly valid rows, and its cell was computed without it.
C1_Witness ==
    /\ pc = "done"
    /\ \E i, j \in 1..Len(keys) :
          /\ i # j
          /\ Cardinality(JointRows(keys[i], keys[j])) >= 3
          /\ JointRows(keys[i], keys[j]) \ CommonRows # {}
          /\ matrix[i][j] = NaN

\* C2: a pair of keys with fewer than 3 jointly valid rows has the cell NaN
\* (not 0, and the call returns a full matrix).
C2_FewRowsNaN ==
    pc = "done" =>
        /\ DOMAIN matrix = 1..Len(keys)
        /\ \A i, j \in 1..Len(keys) :
              Cardinality(JointRows(keys[i], keys[j])) < 3 => matrix[i][j] = NaN

C2_Witness ==
    /\ pc = "done"
    /\ \E i, j \in 1..Len(keys) :
          /\ Cardinality(JointRows(keys[i], keys[j])) \in 1..2
          /\ matrix[i][j] = NaN

\* C3: with at least 3 valid rows, a pair one of whose columns is constant
\* over the valid rows has the cell NaN.
C3_ZeroVarianceNaN ==
    pc = "done" =>
        \A i, j \in 1..Len(keys) :
            (/\ Cardinality(CommonRows) >= 3
             /\ ConstantColumn(keys[i]) \/ ConstantColumn(keys[j]))
                => matrix[i][j] = NaN

\* C4: the matrix is square, one row and one column per key, and symmetric
\* (NaN is a value of the model, so two NaN cells are equal).
C4_Symmetric ==
    pc = "done" =>
        /\ DOMAIN matrix = 1..Len(keys)
        /\ \A i \in 1..Len(keys) : DOMAIN matrix[i] = 1..Len(keys)
        /\ \A i, j \in 1..Len(keys) : matrix[i][j] = matrix[j][i]

\* A matrix over three keys with both a number and a NaN off the diagonal.
C4_Witness ==
    /\ pc = "done"
    /\ Len(keys) = 3
    /\ \E i, j \in 1..3 : i # j /\ matrix[i][j].k = "fin" /\ matrix[i][j] # One
    /\ \E i, j \in 1..3 : i # j /\ matrix[i][j] = NaN

\* C5 as stated: a key whose series has at least 3 valid points in the table
\* has the diagonal cell 1.
C5_DiagonalOne ==
    pc = "done" =>
        \A i \in 1..Len(keys) :
            Cardinality(JointRows(keys[i], keys[i])) >= 3 => matrix[i][i] = One

\* C5 amended: the diagonal cell of a key is 1 when at least 3 rows are valid
\* for all the keys and the column of the key is not constant over them.
C5_DiagonalOneNonConstant ==
    pc = "done" =>
        \A i \in 1..Len(keys) :
            (Cardinality(CommonRows) >= 3 /\ ~ConstantColumn(keys[i]))
                => matrix[i][i] = One

C5_Witness ==
    /\ pc = "done"
    /\ Len(keys) >= 2
    /\ Cardinality(CommonRows) >= 3
    /\ \E i \in 1..Len(keys) : ~ConstantColumn(keys[i]) /\ matrix[i][i] = One

----------------------------------------------------------------------------
(* Properties of alignByDate *)

\* The dates that appear in any series of the map.
UnionOfDates ==
    {series[i].pts[j].date : <<i, j>> \in
        {ij \in (1..Len(series)) \X (1..MaxSeriesLen + 1) : ij[2] <= Len(series[ij[1]].pts)}}

\* The values a series has at exactly the date d.
ValuesAt(e, d) == {e.pts[j].value : j \in {n \in 1..Len(e.pts) : e.pts[n].date = d}}

\* C6: one row per distinct date of the input series, ascending by date; the
\* cell of a series is its value at exactly the date of the row, and null
\* when it has no point at that date.
C6_OuterJoin ==
    pc = "aligned" =>
        /\ Len(table) = Cardinality(UnionOfDates)
        /\ {table[r]["date"] : r \in 1..Len(table)} = UnionOfDates
        /\ \A r \in 1..(Len(table) - 1) : DateLess(table[r]["date"], table[r + 1]["date"])
        /\ \A r \in 1..Len(table) : \A i \in 1..Len(series) :
              LET at == ValuesAt(series[i], table[r]["date"])
              IN  IF at = {} THEN table[r][series[i].key] = Null
                  ELSE table[r][series[i].key] \in at

\* Two series given out of date order: one has a point at a date between
\* two dates of the other one, and its cell there is null in the other column.
C6_Witness ==
    /\ pc = "aligned"
    /\ Len(series) = 2
    /\ Len(table) = 3
    /\ table[2][series[1].key] = Null
    /\ table[2][series[2].key] # Null
    /\ table[1][series[1].key] # Null
    /\ table[3][series[1].key] # Null
    /\ DateLess(series[1].pts[2].date, series[1].pts[1].date)

----------------------------------------------------------------------------
(* Properties of toAnnual, toMonthly and yoyPct *)

StrictlyAscending(s) ==
    \A i \in 1..(Len(s) - 1) : DateLess(s[i].date, s[i + 1].date)

DatesOf(s) == {s[i].date : i \in 1..Len(s)}

\* C7: the output dates of toAnnual and toMonthly are strictly ascending (so
\* unique), one per calendar year (year-month) present in the input.
C7_AscendingUnique ==
    /\ pc \in {"annual", "annualAvg"} =>
          /\ StrictlyAscending(out)
          /\ DatesOf(out) = {YearEnd(Year(d)) : d \in DatesOf(points)}
          /\ Len(out) = Cardinality({Year(d) : d \in DatesOf(points)})
    /\ pc = "monthly" =>
          /\ StrictlyAscending(out)
          /\ DatesOf(out) = {MonthStamp(YearMonth(d)) : d \in DatesOf(points)}
          /\ Len(out) = Cardinality({YearMonth(d) : d \in DatesOf(points)})

\* toMonthly of an input in descending order, with two points in one month.
C7_Witness ==
    /\ pc = "monthly"
    /\ Len(points) = 3
    /\ Len(out) = 2
    /\ DateLess(points[2].date, points[1].date)
    /\ DateLess(points[3].date, points[2].date)

\* C8: toAnnual(toAnnual(s, "last"), "last") = toAnnual(s, "last").
C8_AnnualIdempotent ==
    pc = "annualTwice" => out2 = out

\* The first pass merged two points of one year and kept two years.
C8_Witness ==
    /\ pc = "annualTwice"
    /\ Len(points) = 3
    /\ Len(out) = 2
    /\ Len(out2) = 2

\* The positions of the annual sequence whose year follows the year of the
\* position before.
YoYPositions == {i \in 2..Len(out) : Year(out[i].date) = Year(out[i - 1].date) + 1}

\* C9: yoyPct emits exactly one point per position whose year is the year of
\* the previous point plus one, in order, dated as that point, with the value
\* (current / previous - 1) * 100.
C9_YoYConsecutiveOnly ==
    pc = "yoy" =>
        /\ Len(out2) = Cardinality(YoYPositions)
        /\ \A i \in YoYPositions :
              LET n == Cardinality({j \in YoYPositions : j <= i})
              IN  /\ out2[n].date = out[i].date
                  /\ out2[n].value =
                        FMul(FSub(FDiv(out[i].value, out[i - 1].value), One), FromInt(100))

\* The years 2019, 2020, 2022 yield exactly one point, for 2020.
C9_Witness ==
    /\ pc = "yoy"
    /\ [i \in 1..Len(out) |-> Year(out[i].date)] = <<2019, 2020, 2022>>
    /\ Len(out2) = 1
    /\ out2[1].date = <<2020, 12, 31>>

----------------------------------------------------------------------------
(* Properties of the fetch effect *)

\* Run b of the effect completes in this step.
Completes(b) == ~batches[b].done /\ batches'[b].done

\* What run b has for key k once all its fetches have settled.
ResultOf(bt, k) == IF bt.fetch[k] = "rejected" THEN <<>> ELSE Fetched(k)

\* C10: no rejection leaves a run of the effect, and when a run completes
\* the series state holds, for each of its keys, the empty series if the
\* fetch of the key failed and the fetched points if it succeeded.
C10_FailureIsolated ==
    /\ [](~unhandled)
    /\ [][\A b \in 1..Len(batches) :
            Completes(b) =>
                \A k \in Elems(batches[b].keys) :
                    /\ k \in SeriesKeysOf(seriesData')
                    /\ EntryOf(seriesData', k).pts = ResultOf(batches[b], k)]_vars

\* A completed run with a failed fetch and a successful sibling, both in
\* the series state.
C10_Witness ==
    /\ ~unhandled
    /\ \E b \in 1..Len(batches) :
          /\ batches[b].done
          /\ \E k1, k2 \in Elems(batches[b].keys) :
                /\ batches[b].fetch[k1] = "rejected"
                /\ batches[b].fetch[k2] = "resolved"
                /\ k1 \in SeriesKeysOf(seriesData)
                /\ EntryOf(seriesData, k1).pts = <<>>
                /\ k2 \in SeriesKeysOf(seriesData)
                /\ EntryOf(seriesData, k2).pts = Fetched(k2)
                /\ Len(Fetched(k2)) > 0

\* C11: a run of the effect that completes after a run started later has
\* completed leaves the series state as it is.
C11_StaleNotApplied ==
    [][\A b \in 1..Len(batches) :
          (Completes(b) /\ \E n \in (b + 1)..Len(batches) : batches[n].done)
              => seriesData' = seriesData]_vars

----------------------------------------------------------------------------
(* Properties of the view *)

\* The series keys of the current selection, as the effect builds them.
SelectedKeys ==
    Elems(EffectKeys(wbVars, wbCountries, fxPairs, commods, cryptoTickers))

\* Every run of the effect has settled and stored its data.
AllRunsDone ==
    batches # <<>> /\ \A b \in 1..Len(batches) : batches[b].done

\* C12: once no fetch is in flight, every key of corrKeys (a column of the
\* aligned table and of the matrix) is a key of the current selection.
C12_OnlySelectedSeries ==
    AllRunsDone => \A i \in 1..Len(corrKeys) : corrKeys[i] \in SelectedKeys

\* C13: on the tab of the correlation, with fewer than 2 keys or fewer than
\* 5 aligned rows the prompt is rendered, and neither the table of the
\* matrix nor the scatter.
C13_DegenerateWithheld ==
    (tab = "corr" /\ (Len(corrKeys) < 2 \/ Len(alignedRows) < 5))
        => PromptRendered /\ ~TableRendered /\ ~ScatterRendered

----------------------------------------------------------------------------
(* Properties of the middleware *)

\* The header carries Basic credentials: "Basic", a space, a base64 text.
HasCredentials ==
    /\ req.auth # null
    /\ Len(split(req.auth, " ")) = 2
    /\ split(req.auth, " ")[1] = Basic
    /\ split(req.auth, " ")[2] # <<>>

\* The text the client encoded, user-id ":" password: the user-id is what
\* precedes the first colon and the password all that follows it.
SuppliedText == BufferToString(BufferFromBase64(split(req.auth, " ")[2]))

SuppliedUser == split(SuppliedText, ":")[1]

SuppliedPass ==
    IF Len(SuppliedUser) = Len(SuppliedText) THEN undefined
    ELSE SubSeq(SuppliedText, Len(SuppliedUser) + 2, Len(SuppliedText))

Configured ==
    env.BASIC_AUTH_USER # undefined /\ env.BASIC_AUTH_PASS # undefined

\* C14: a request under /dashboard is answered 401 when it has no
\* authorization header, 403 when its user or password differs from the
\* configured ones, and passes exactly when both equal the configured ones.
C14_MiddlewareResponses ==
    (pc = "response" /\ matcher(req.path) /\ Configured) =>
        /\ req.auth = null => res = "401"
        /\ (/\ HasCredentials
            /\ \/ SuppliedUser # env.BASIC_AUTH_USER
               \/ SuppliedPass # env.BASIC_AUTH_PASS) => res = "403"
        /\ res = "next" <=> (/\ HasCredentials
                             /\ SuppliedUser = env.BASIC_AUTH_USER
                             /\ SuppliedPass = env.BASIC_AUTH_PASS)

----------------------------------------------------------------------------
(* Properties of the runs of the effect *)

\* The fetch of key k of run b settles in this step.
Arrives(b, k) == batches[b].fetch[k] = "pending" /\ batches'[b].fetch[k] # "pending"

\* C15: the series state changes only in the step in which a run completes,
\* all the fetches of that run have settled by then, a run completes once,
\* and the arrival of a fetch leaves the series state as it is.
C15_OneUpdatePerBatch ==
    [][/\ seriesData' # seriesData =>
            \E b \in 1..Len(batches) :
                /\ Completes(b)
                /\ \A k \in Elems(batches[b].keys) : batches[b].fetch[k] # "pending"
       /\ \A b \in 1..Len(batches) :
            /\ batches[b].done => batches'[b].done
            /\ \A k \in Elems(batches[b].keys) :
                  Arrives(b, k) => seriesData' = seriesData]_vars

\* A run of two fetches of which one has arrived: its data are not in the
\* series state.
C15_Witness ==
    \E b \in 1..Len(batches) :
        /\ ~batches[b].done
        /\ \E k1, k2 \in Elems(batches[b].keys) :
              /\ batches[b].fetch[k1] = "resolved"
              /\ batches[b].fetch[k2] = "pending"
              /\ k1 \notin SeriesKeysOf(seriesData)

\* C16: a key whose fetch is pending in some run is in loadingKeys, and
\* isLoading is true then.
C16_LoadingConsistent ==
    \A b \in 1..Len(batches) :
        \A k \in Elems(batches[b].keys) :
            batches[b].fetch[k] = "pending"
                => k \in Elems(loadingKeys) /\ isLoading

\* The series state has, for each key of the current selection, what the
\* fetch of the key yielded in some run: its points, or the empty series.
SelectionStored ==
    \A k \in SelectedKeys :
        /\ k \in SeriesKeysOf(seriesData)
        /\ \E b \in 1..Len(batches) :
              /\ k \in Elems(batches[b].keys)
              /\ batches[b].fetch[k] # "pending"
              /\ EntryOf(seriesData, k).pts = ResultOf(batches[b], k)

\* C17: when every fetch settles and the selection stops changing, from some
\* point on loadingKeys is empty (isLoading false) and the series state has
\* an entry for every selected key.
C17_Settles == <>[](loadingKeys = <<>> /\ ~isLoading /\ SelectionStored)

\* Settled after a change of selection, with a failed fetch stored as the
\* empty series of a selected key.
C17_Witness ==
    /\ Len(batches) >= 2
    /\ AllRunsDone
    /\ loadingKeys = <<>>
    /\ SelectionStored
    /\ \E k \in SelectedKeys : EntryOf(seriesData, k).pts = <<>>

============================================================================
